---- MODULE Spec2Model ----
(***************************************************************************)
(* A model of pipenode.py, the diffusion-MRI processing pipeline: the      *)
(* stage functions, their error handling, and the file outputs of the      *)
(* tracking and tractome-preprocessing stages.                             *)
(***************************************************************************)
EXTENDS Integers, Sequences, FiniteSets, TLC

VARIABLES
    \* ---- compute_tracking, tractome_preprocessing ----
    faDim,          \* FA.shape: the side of the FA grid
    evDim,          \* evecs.shape[:3]: the side of the eigenvector grid
    faAbove,        \* per voxel, whether FA > par_eudx_threshold (a_low)
    par_trk_min,    \* parameters.par_trk_min
    par_trk_max,    \* parameters.par_trk_max
    trk_pc,         \* position inside compute_tracking
    pass1,          \* the tracks the generator at 241 pulled from `streamlines`
    trk_file,       \* out_trk_file: absent, malformed, or the streamlines in it
    dpy_file,       \* out_dipy_file: absent or the tracks in it
    temp_dir,       \* whether <src_trk_dir>/.temp exists
    spa_file,       \* out_spa_file: absent, or the pickled info
    prep_pc,        \* how the last tractome_preprocessing call ended
    dir_before,     \* os.path.exists(out_spa_dir) as seen at line 265
    \* ---- the run of the stage functions over the subjects ----
    subj,           \* the subject being processed
    stage,          \* index in Stages of the next stage function to call
    proc,           \* "running", "exited" (sys.exit) or "traceback" (uncaught)
    stdout,         \* the diagnostics printed so far
    calls,          \* the stage calls made so far, with the error each hit
    \* ---- the seed count in the output file names ----
    par_eudx_seeds, \* parameters.par_eudx_seeds
    trk_name,       \* compute_tracking's `seed` string (234), "" before it
    trk_basename,   \* tractome_preprocessing's seed part of trk_basename (258)
    \* ---- compute_reconstruction ----
    evals,          \* tensors.evals: per voxel, the three eigenvalues
    recon_pc,       \* position inside compute_reconstruction
    saved,          \* the files nib.save has written, in order
    fa_file,        \* the data of the FA volume written at 203
    \* ---- dicom_to_nifti ----
    out_dir,        \* the files of out_dir, each with its ctime
    clock,          \* the file system's time
    n_calls,        \* calls of dicom_to_nifti made so far
    dcm_pc,         \* how the last call ended
    emitted,        \* the names the converter wrote in the last call
    all_file,       \* glob(out_dir/*.nii) of the last call (76)
    new_file        \* the file the last call selected (77)

trackVars == <<faDim, evDim, faAbove, par_trk_min, par_trk_max, trk_pc, pass1,
               trk_file, dpy_file, temp_dir, spa_file, prep_pc, dir_before>>

pipeVars == <<subj, stage, proc, stdout, calls>>

nameVars == <<par_eudx_seeds, trk_name, trk_basename>>

reconVars == <<evals, recon_pc, saved, fa_file>>

dcmVars == <<out_dir, clock, n_calls, dcm_pc, emitted, all_file, new_file>>

vars == <<trackVars, pipeVars, nameVars, reconVars, dcmVars>>

notTrackVars == <<pipeVars, nameVars, reconVars, dcmVars>>
notPipeVars == <<trackVars, nameVars, reconVars, dcmVars>>
notNameVars == <<trackVars, pipeVars, reconVars, dcmVars>>
notReconVars == <<trackVars, pipeVars, nameVars, dcmVars>>
notDcmVars == <<trackVars, pipeVars, nameVars, reconVars>>

-----------------------------------------------------------------------------
(* Bounds and value domains *)

\* par_eudx_seeds in the tracking model: seed points drawn per enumeration.
NumSeeds == 2

\* Grid sides of the FA and eigenvector volumes.
Dims == {3, 4}

\* Length thresholds tried: every min < max over the lengths a grid allows.
Thresholds == {<<0, 2>>, <<1, 2>>, <<1, 3>>, <<2, 3>>}

\* A file of the output directory: absent, unreadable, or holding data.
Absent == [state |-> "absent", data |-> <<>>]
Malformed == [state |-> "malformed", data |-> <<>>]
File(d) == [state |-> "ok", data |-> d]

\* parameters.par_prototype_num
par_prototype_num == 2

\* The pickled record {'dismatrix', 'nprot'}: the matrix by its shape (one row
\* per streamline read, one column per prototype), then nprot.
Info(streams) == <<Len(streams), par_prototype_num, par_prototype_num>>

-----------------------------------------------------------------------------
(* dipy.tracking.metrics.length: the sum of the distances between            *)
(* consecutive points.  Points lie on one axis, so a distance is |a - b|.    *)

Abs(x) == IF x < 0 THEN -x ELSE x

RECURSIVE length(_)
length(sl) ==
    IF Len(sl) < 2 THEN 0
    ELSE Abs(sl[2] - sl[1]) + length(Tail(sl))

(* EuDX propagation from one seed: both directions from the seed while FA    *)
(* stays above a_low; no track when the seed voxel itself is below it.       *)
RECURSIVE Lo(_, _)
Lo(fa, v) == IF v > 1 /\ fa[v - 1] THEN Lo(fa, v - 1) ELSE v

RECURSIVE Hi(_, _, _)
Hi(fa, n, v) == IF v < n /\ fa[v + 1] THEN Hi(fa, n, v + 1) ELSE v

TrackFrom(fa, n, seed) ==
    LET a == Lo(fa, seed)
        b == Hi(fa, n, seed)
    IN  [i \in 1..(b - a + 1) |-> a + i - 1]

(* One enumeration of the EuDX object: a track per seed point, skipping the  *)
(* seeds that start below the threshold.  seedpts is the sequence of seed    *)
(* points this enumeration draws.                                            *)
RECURSIVE EuDX(_, _, _)
EuDX(fa, n, seedpts) ==
    IF seedpts = <<>> THEN <<>>
    ELSE LET rest == EuDX(fa, n, Tail(seedpts))
         IN  IF fa[Head(seedpts)]
             THEN <<TrackFrom(fa, n, Head(seedpts))>> \o rest
             ELSE rest

(* With an integer `seeds` EuDX draws that many seed points itself, anew on  *)
(* every enumeration: any sequence of NumSeeds voxels.                       *)
SeedDraws(n) == [1..NumSeeds -> 1..n]

\* The filter of the generator expression at 241-242.
KeepStreamlineNonStrict(sl) ==
    length(sl) >= par_trk_min /\ length(sl) <= par_trk_max

KeepStreamline(sl) ==
    length(sl) > par_trk_min /\ length(sl) < par_trk_max

-----------------------------------------------------------------------------
(* compute_tracking *)

IdlePipe ==
    subj = 1 /\ stage = 1 /\ proc = "running" /\ stdout = <<>> /\ calls = <<>>

IdleName == par_eudx_seeds = 1000 /\ trk_name = <<>> /\ trk_basename = <<>>

IdleRecon ==
    evals = <<>> /\ recon_pc = "idle" /\ saved = <<>> /\ fa_file = <<>>

NoFile == [name |-> <<>>, ctime |-> 0]

IdleDcm ==
    /\ out_dir = {} /\ clock = 0 /\ n_calls = 0 /\ dcm_pc = "idle"
    /\ emitted = {} /\ all_file = {} /\ new_file = NoFile

IdleTrack ==
    /\ faDim = 3 /\ evDim = 3 /\ faAbove = [v \in 1..3 |-> FALSE]
    /\ par_trk_min = 0 /\ par_trk_max = 0
    /\ trk_pc = "idle" /\ pass1 = <<>>
    /\ trk_file = Absent /\ dpy_file = Absent
    /\ temp_dir = FALSE /\ spa_file = Absent
    /\ prep_pc = "idle" /\ dir_before = FALSE

InitTrack ==
    /\ faDim \in Dims
    /\ evDim \in Dims
    /\ faAbove \in [1..faDim -> BOOLEAN]
    /\ \E t \in Thresholds : par_trk_min = t[1] /\ par_trk_max = t[2]
    /\ trk_pc = "start"
    /\ pass1 = <<>>
    /\ trk_file \in {Absent, Malformed}
    /\ dpy_file = Absent
    /\ temp_dir \in BOOLEAN
    /\ spa_file \in (IF temp_dir THEN {Absent, File(Info(<<>>))} ELSE {Absent})
    /\ prep_pc = "idle"
    /\ dir_before = temp_dir
    /\ IdlePipe /\ IdleName /\ IdleRecon /\ IdleDcm

(* Lines 212-228: load both volumes, quantize, build the EuDX object.  The   *)
(* shapes of FA and evecs are never compared; what EuDX does with arrays of  *)
(* different shapes is the library's: it raises, or it goes on.              *)
LoadAndBuild ==
    /\ trk_pc = "start"
    /\ \/ trk_pc' = "built"
       \/ faDim # evDim /\ trk_pc' = "raised"
    /\ UNCHANGED <<faDim, evDim, faAbove, par_trk_min, par_trk_max, pass1,
                   trk_file, dpy_file, temp_dir, spa_file, prep_pc, dir_before,
                   notTrackVars>>

(* Lines 237-244: nib.trackvis.write pulls the generator, which enumerates   *)
(* `streamlines` and keeps what passes the filter.                           *)
WriteTrk ==
    /\ trk_pc = "built"
    /\ \E seedpts \in SeedDraws(faDim) :
         /\ pass1' = EuDX(faAbove, faDim, seedpts)
         /\ trk_file' = File(SelectSeq(pass1', KeepStreamline))
    /\ trk_pc' = "trk_written"
    /\ UNCHANGED <<faDim, evDim, faAbove, par_trk_min, par_trk_max,
                   dpy_file, temp_dir, spa_file, prep_pc, dir_before, notTrackVars>>

(* Lines 246-250: `streamlines` is enumerated a second time, unfiltered,     *)
(* and the tracks go to the Dpy file.                                        *)
WriteDpy ==
    /\ trk_pc = "trk_written"
    /\ \E seedpts \in SeedDraws(faDim) :
         dpy_file' = File(EuDX(faAbove, faDim, seedpts))
    /\ trk_pc' = "done"
    /\ UNCHANGED <<faDim, evDim, faAbove, par_trk_min, par_trk_max, pass1,
                   trk_file, temp_dir, spa_file, prep_pc, dir_before, notTrackVars>>

-----------------------------------------------------------------------------
(* tractome_preprocessing *)

(* A variant that opens the .spa file for writing before the .trk is read. *)
TractomePreprocessingOpenFirst ==
    /\ trk_pc \in {"start", "raised", "done"}
    /\ dir_before' = temp_dir
    /\ temp_dir' = TRUE
    /\ IF trk_file.state # "ok"
       THEN /\ prep_pc' = "raised"
            /\ spa_file' = File(<<>>)
       ELSE /\ prep_pc' = "done"
            /\ spa_file' = File(Info(trk_file.data))
    /\ UNCHANGED <<faDim, evDim, faAbove, par_trk_min, par_trk_max, trk_pc,
                   pass1, trk_file, dpy_file, notTrackVars>>

(* Lines 253-275, in the order of the code: the .temp directory is made      *)
(* first (265-266), then the .trk file is read (269), and the .spa file is   *)
(* opened and written last (275).                                            *)
TractomePreprocessing ==
    /\ trk_pc \in {"start", "raised", "done"}
    /\ dir_before' = temp_dir
    /\ temp_dir' = TRUE
    /\ IF trk_file.state # "ok"
       THEN /\ prep_pc' = "raised"
            /\ spa_file' = spa_file
       ELSE /\ prep_pc' = "done"
            /\ spa_file' = File(Info(trk_file.data))
    /\ UNCHANGED <<faDim, evDim, faAbove, par_trk_min, par_trk_max, trk_pc,
                   pass1, trk_file, dpy_file, notTrackVars>>

NextTrack ==
    \/ LoadAndBuild
    \/ WriteTrk
    \/ WriteDpy
    \/ TractomePreprocessing

SpecTrack == InitTrack /\ [][NextTrack]_vars

-----------------------------------------------------------------------------
(* Properties of compute_tracking and tractome_preprocessing (SpecTrack) *)

TrkWritten == trk_pc \in {"trk_written", "done"}

StrictlyInside(sl) == par_trk_min < length(sl) /\ length(sl) < par_trk_max

(* C1: once the .trk file is written it exists, even when nothing survives,  *)
(* every streamline in it has par_trk_min < length < par_trk_max strictly,   *)
(* and it holds every enumerated track that is strictly inside the bounds:   *)
(* a track of length equal to a bound, or outside them, is not in it.        *)
C1_LengthFilterStrict ==
    TrkWritten =>
        /\ trk_file.state = "ok"
        /\ \A i \in DOMAIN trk_file.data : StrictlyInside(trk_file.data[i])
        /\ Len(trk_file.data) =
               Cardinality({i \in DOMAIN pass1 : StrictlyInside(pass1[i])})

\* C1 witness: a track whose length equals a bound was enumerated and left
\* out, while another track was written.
C1_Witness ==
    /\ TrkWritten
    /\ \E i \in DOMAIN pass1 : length(pass1[i]) \in {par_trk_min, par_trk_max}
    /\ Len(trk_file.data) > 0
    /\ Len(trk_file.data) < Len(pass1)

(* C2: when compute_tracking is done, the tracks in the .dpy container are   *)
(* the length-filtered sequence written to the .trk file, in the same order. *)
C2_DpyEqualsTrk ==
    trk_pc = "done" => dpy_file.data = trk_file.data

(* C5: with FA and eigenvector grids of different dimensions, neither the    *)
(* .trk nor the .dpy file is ever written.                                   *)
C5_MismatchWritesNothing ==
    faDim # evDim => trk_file.state # "ok" /\ dpy_file.state # "ok"

(* C6: a tractome_preprocessing call whose .trk input is missing or          *)
(* malformed leaves the file system under src_trk_dir unchanged: no .spa     *)
(* file and no .temp directory appears.                                      *)
C6_FailedPrepChangesNothing ==
    [][(TractomePreprocessing /\ trk_file.state # "ok")
          => UNCHANGED <<trk_file, dpy_file, spa_file, temp_dir>>]_vars

(* C6 as amended: such a call leaves the .trk, .dpy and .spa files as they   *)
(* were (no .spa is created or truncated); the .temp directory exists after  *)
(* it, created by the call when it was absent.                               *)
C6_FailedPrepWritesNoSpa ==
    [][(TractomePreprocessing /\ trk_file.state # "ok")
          => UNCHANGED <<trk_file, dpy_file, spa_file>> /\ temp_dir']_vars

\* C6 witness: a call failed on its input, found no .temp directory and left
\* one behind, with no .spa file in it.
C6_Witness ==
    /\ prep_pc = "raised"
    /\ ~dir_before
    /\ temp_dir
    /\ spa_file = Absent

(* C7: the two enumerations of the streamline generator inside one run yield *)
(* the same sequence of streamlines: what the second pass hands to the .dpy  *)
(* writer is what the first pass enumerated.                                 *)
C7_PassesAgree ==
    trk_pc = "done" => dpy_file.data = pass1

-----------------------------------------------------------------------------
(* The stage functions and their error handling *)

\* Subjects of one batch run.
NumSubjects == 2

\* The stage functions, in the order a run calls them.
Stages == <<"dicom_to_nifti", "brain_extraction", "eddy_current_correction",
            "rescaling_isotropic_voxel", "atlas_registration",
            "compute_reconstruction", "compute_tracking",
            "tractome_preprocessing">>

NoMsg == [stage |-> "-", file |-> "-"]

\* How a stage call ends: it returns, sys.exit() ends the process, or an
\* exception leaves the function; and the diagnostic it printed, if any.
Returns(msg) == [end |-> "return", msg |-> msg]
Exits(msg) == [end |-> "exit", msg |-> msg]
Raises == [end |-> "raise", msg |-> NoMsg]

(* dicom_to_nifti, 57-101.  Only the IndexError of an empty *.dcm listing    *)
(* (68) is handled: a message naming the pattern, then sys.exit().  The      *)
(* min() of an empty *.nii listing (77) is not inside any try.               *)
dicom_to_nifti_errors == {"none", "no_dcm", "no_nii"}

dicom_to_nifti(err) ==
    CASE err = "none" -> Returns(NoMsg)
      [] err = "no_dcm" -> Exits([stage |-> "dcm2nii", file |-> "*.dcm"])
      [] err = "no_nii" -> Raises

(* brain_extraction, 104-116.  src_bet_file is bound at 111, after the       *)
(* directory test and the listing; the handler at 115 formats it.  When the  *)
(* error comes before 111 the handler itself fails on the unbound name.      *)
brain_extraction_errors == {"none", "not_a_dir", "no_match", "pipe"}

brain_extraction(err) ==
    LET src_bet_file_bound == err \notin {"not_a_dir", "no_match"}
    IN  CASE err = "none" -> Returns(NoMsg)
          [] err # "none" /\ src_bet_file_bound ->
                Exits([stage |-> "bet", file |-> "src_bet_file"])
          [] err # "none" /\ ~src_bet_file_bound -> Raises

(* eddy_current_correction, 119-130.  src_ecc_file is bound by the first     *)
(* statement of the try (122); an error there leaves it unbound.             *)
eddy_current_correction_errors == {"none", "src_join", "out_join", "pipe"}

eddy_current_correction(err) ==
    LET src_ecc_file_bound == err # "src_join"
    IN  CASE err = "none" -> Returns(NoMsg)
          [] err # "none" /\ src_ecc_file_bound ->
                Exits([stage |-> "eddy_correct", file |-> "src_ecc_file"])
          [] err # "none" /\ ~src_ecc_file_bound -> Raises

(* rescaling_isotropic_voxel, 133-149.  The handler prints and then          *)
(* evaluates the name `exit` (149) without calling it: the function returns. *)
rescaling_isotropic_voxel_errors == {"none", "src_join", "load", "resample", "save"}

rescaling_isotropic_voxel(err) ==
    LET src_iso_file_bound == err # "src_join"
    IN  CASE err = "none" -> Returns(NoMsg)
          [] err # "none" /\ src_iso_file_bound ->
                Returns([stage |-> "isotropic rescaling", file |-> "src_iso_file"])
          [] err # "none" /\ ~src_iso_file_bound -> Raises

(* atlas_registration, 161-175.  Only IndexError (no file ends with          *)
(* par_atlas_file) is handled; a missing FSLDIR is a KeyError.               *)
atlas_registration_errors == {"none", "no_fsldir", "no_atlas"}

atlas_registration(err) ==
    CASE err = "none" -> Returns(NoMsg)
      [] err = "no_atlas" ->
            Exits([stage |-> "atlas file not found", file |-> "par_atlas_file"])
      [] err = "no_fsldir" -> Raises

(* compute_reconstruction (178-207), compute_tracking (210-250) and          *)
(* tractome_preprocessing (253-275) hold no try: any error leaves them.      *)
compute_reconstruction_errors == {"none", "no_bval", "load", "fit", "save"}

compute_reconstruction(err) ==
    IF err = "none" THEN Returns(NoMsg) ELSE Raises

compute_tracking_errors == {"none", "load", "track", "write"}

compute_tracking(err) ==
    IF err = "none" THEN Returns(NoMsg) ELSE Raises

tractome_preprocessing_errors == {"none", "read", "dissimilarity", "dump"}

tractome_preprocessing(err) ==
    IF err = "none" THEN Returns(NoMsg) ELSE Raises

InitPipe ==
    /\ subj = 1
    /\ stage = 1
    /\ proc = "running"
    /\ stdout = <<>>
    /\ calls = <<>>
    /\ IdleTrack /\ IdleName /\ IdleRecon /\ IdleDcm

(* The run: the stage functions called one after the other for each subject. *)
(* A return hands control back, and the next stage is called; sys.exit() and *)
(* an exception nobody catches end the process.                              *)
Call(name, err, out) ==
    /\ proc = "running"
    /\ subj <= NumSubjects
    /\ calls' = Append(calls, [subj |-> subj, stage |-> name, err |-> err])
    /\ stdout' = IF out.msg = NoMsg THEN stdout
                 ELSE Append(stdout, [subj |-> subj, stage |-> out.msg.stage,
                                      file |-> out.msg.file])
    /\ proc' = CASE out.end = "return" -> "running"
                 [] out.end = "exit" -> "exited"
                 [] out.end = "raise" -> "traceback"
    /\ IF out.end = "return"
       THEN IF stage < Len(Stages)
            THEN stage' = stage + 1 /\ subj' = subj
            ELSE stage' = 1 /\ subj' = subj + 1
       ELSE UNCHANGED <<stage, subj>>
    /\ UNCHANGED notPipeVars

Call_dicom_to_nifti ==
    /\ Stages[stage] = "dicom_to_nifti"
    /\ \E err \in dicom_to_nifti_errors :
          Call("dicom_to_nifti", err, dicom_to_nifti(err))

Call_brain_extraction ==
    /\ Stages[stage] = "brain_extraction"
    /\ \E err \in brain_extraction_errors :
          Call("brain_extraction", err, brain_extraction(err))

Call_eddy_current_correction ==
    /\ Stages[stage] = "eddy_current_correction"
    /\ \E err \in eddy_current_correction_errors :
          Call("eddy_current_correction", err, eddy_current_correction(err))

Call_rescaling_isotropic_voxel ==
    /\ Stages[stage] = "rescaling_isotropic_voxel"
    /\ \E err \in rescaling_isotropic_voxel_errors :
          Call("rescaling_isotropic_voxel", err, rescaling_isotropic_voxel(err))

Call_atlas_registration ==
    /\ Stages[stage] = "atlas_registration"
    /\ \E err \in atlas_registration_errors :
          Call("atlas_registration", err, atlas_registration(err))

Call_compute_reconstruction ==
    /\ Stages[stage] = "compute_reconstruction"
    /\ \E err \in compute_reconstruction_errors :
          Call("compute_reconstruction", err, compute_reconstruction(err))

Call_compute_tracking ==
    /\ Stages[stage] = "compute_tracking"
    /\ \E err \in compute_tracking_errors :
          Call("compute_tracking", err, compute_tracking(err))

Call_tractome_preprocessing ==
    /\ Stages[stage] = "tractome_preprocessing"
    /\ \E err \in tractome_preprocessing_errors :
          Call("tractome_preprocessing", err, tractome_preprocessing(err))

NextPipe ==
    \/ Call_dicom_to_nifti
    \/ Call_brain_extraction
    \/ Call_eddy_current_correction
    \/ Call_rescaling_isotropic_voxel
    \/ Call_atlas_registration
    \/ Call_compute_reconstruction
    \/ Call_compute_tracking
    \/ Call_tractome_preprocessing

SpecPipe == InitPipe /\ [][NextPipe]_vars

-----------------------------------------------------------------------------
(* Properties of the run of the stages (SpecPipe) *)

(* C3: every failure is terminal: once an error occurs inside a stage the    *)
(* process ends there, so a call that hit an error is the last call made.    *)
C3_FailureIsTerminal ==
    /\ \A i \in 1..(Len(calls) - 1) : calls[i].err = "none"
    /\ (calls # <<>> /\ calls[Len(calls)].err # "none") => proc # "running"

Diagnosed(c) ==
    \E k \in DOMAIN stdout :
        /\ stdout[k].subj = c.subj
        /\ stdout[k].file # "-"
        /\ stdout[k].stage = (IF c.stage = "brain_extraction" THEN "bet"
                              ELSE c.stage)

(* C4: a failed stage has printed a diagnostic naming the stage and the      *)
(* offending file: brain_extraction with a missing input (src_bet not a      *)
(* directory, or no matching .nii) has printed 'FAIL: bet - File: <path>',   *)
(* and an error in compute_reconstruction has been caught and reported.      *)
C4_FailureIsDiagnosed ==
    \A i \in DOMAIN calls :
        (/\ calls[i].err # "none"
         /\ calls[i].stage \in {"brain_extraction", "compute_reconstruction"})
            => Diagnosed(calls[i])

-----------------------------------------------------------------------------
(* The seed count in the names of the tracking and dissimilarity files *)

\* Seed counts tried: 1000, and the multiples of SeedStep up to MaxSeedSteps.
SeedStep == 50000
MaxSeedSteps == 60

SeedCounts == {1000} \cup {k * SeedStep : k \in 1..MaxSeedSteps}

\* "%d" of a non-negative integer: its decimal digits.
Digit(d) == CASE d = 0 -> "0" [] d = 1 -> "1" [] d = 2 -> "2" [] d = 3 -> "3"
              [] d = 4 -> "4" [] d = 5 -> "5" [] d = 6 -> "6" [] d = 7 -> "7"
              [] d = 8 -> "8" [] d = 9 -> "9"

RECURSIVE FormatD(_)
FormatD(n) ==
    IF n < 10 THEN <<Digit(n)>> ELSE Append(FormatD(n \div 10), Digit(n % 10))

(* Lines 233-235 of compute_tracking: "_%d%s" % (seed/10**6 if seed>10**5    *)
(* else seed/10**3, 'K' if seed < 1000000 else 'M'), with integer division.  *)
SeedString(seed) ==
    <<"_">> \o FormatD(IF seed > 10^5 THEN seed \div 10^6 ELSE seed \div 10^3)
            \o <<IF seed < 1000000 THEN "K" ELSE "M">>

(* Lines 258-260 of tractome_preprocessing: the "_%d%s" part of              *)
(* trk_basename, from the same two conditional expressions.                  *)
BasenameSeedString(seeds) ==
    <<"_">> \o FormatD(IF seeds > 10^5 THEN seeds \div 10^6 ELSE seeds \div 10^3)
            \o <<IF seeds < 1000000 THEN "K" ELSE "M">>

InitName ==
    /\ par_eudx_seeds \in SeedCounts
    /\ trk_name = <<>>
    /\ trk_basename = <<>>
    /\ IdleTrack /\ IdlePipe /\ IdleRecon /\ IdleDcm

NameTrk ==
    /\ trk_name = <<>>
    /\ trk_name' = SeedString(par_eudx_seeds)
    /\ UNCHANGED <<par_eudx_seeds, trk_basename, notNameVars>>

NameTrkBasename ==
    /\ trk_basename = <<>>
    /\ trk_basename' = BasenameSeedString(par_eudx_seeds)
    /\ UNCHANGED <<par_eudx_seeds, trk_name, notNameVars>>

NextName == NameTrk \/ NameTrkBasename

SpecName == InitName /\ [][NextName]_vars

\* Reading a token back: the number before the unit letter, times the unit.
DigitValue(c) == CHOOSE d \in 0..9 : Digit(d) = c

RECURSIVE ParseD(_)
ParseD(ds) ==
    IF ds = <<>> THEN 0
    ELSE 10 * ParseD(SubSeq(ds, 1, Len(ds) - 1)) + DigitValue(ds[Len(ds)])

UnitOf(token) == IF token[Len(token)] = "K" THEN 10^3 ELSE 10^6

Decode(token) == ParseD(SubSeq(token, 2, Len(token) - 1)) * UnitOf(token)

(* C8: for a seed count s >= 1000 the token is s/1000 and 'K' when           *)
(* s < 1,000,000 and s/1,000,000 and 'M' otherwise, so that the number times *)
(* its unit is s truncated to that unit; and the two functions derive the    *)
(* same token.                                                               *)
C8_TokenRecoversSeedCount ==
    LET s == par_eudx_seeds
        unit == IF s < 10^6 THEN 10^3 ELSE 10^6
    IN  /\ trk_name # <<>> =>
              UnitOf(trk_name) = unit /\ Decode(trk_name) = s - (s % unit)
        /\ (trk_name # <<>> /\ trk_basename # <<>>) => trk_name = trk_basename

-----------------------------------------------------------------------------
(* compute_reconstruction *)

\* Voxels of the diffusion volume, and the largest eigenvalue tried.
NumVoxels == 2
MaxEval == 2

\* A floating-point value: NaN, or the exact ratio num/den.
NaN == [nan |-> TRUE, num |-> 0, den |-> 0]
Ratio(n, d) == [nan |-> FALSE, num |-> n, den |-> d]

(* The eigenvalues the tensor fit gives one voxel: non-negative and in       *)
(* descending order, or NaN where the signal cannot be fitted.               *)
EvalTriples ==
    {[nan |-> FALSE, l |-> <<a, b, c>>] :
        a \in 0..MaxEval, b \in 0..MaxEval, c \in 0..MaxEval}

Evals ==
    {e \in EvalTriples : e.l[1] >= e.l[2] /\ e.l[2] >= e.l[3]}
        \cup {[nan |-> TRUE, l |-> <<0, 0, 0>>]}

(* dti.fractional_anisotropy (193), by its square:                           *)
(*   FA^2 = ((l1-l2)^2 + (l2-l3)^2 + (l3-l1)^2) / (2 (l1^2 + l2^2 + l3^2)),  *)
(* which is 0/0, NaN, where the three eigenvalues are zero.                  *)
FractionalAnisotropy(e) ==
    LET l1 == e.l[1]
        l2 == e.l[2]
        l3 == e.l[3]
        num == (l1 - l2) * (l1 - l2) + (l2 - l3) * (l2 - l3) + (l3 - l1) * (l3 - l1)
        den == 2 * (l1 * l1 + l2 * l2 + l3 * l3)
    IN  IF e.nan \/ den = 0 THEN NaN ELSE Ratio(num, den)

\* A variant without line 194.
KeepNaN(FA) == FA

\* Line 194: FA[np.isnan(FA)] = 0
ZeroNaN(FA) == [v \in DOMAIN FA |-> IF FA[v].nan THEN Ratio(0, 1) ELSE FA[v]]

InitRecon ==
    /\ evals \in [1..NumVoxels -> Evals]
    /\ recon_pc = "start"
    /\ saved = <<>>
    /\ fa_file = <<>>
    /\ IdleTrack /\ IdlePipe /\ IdleName /\ IdleDcm

(* Lines 190-207: fit, FA, the NaN replacement, and the three volumes saved  *)
(* in the order evecs, FA, color FA.                                         *)
ComputeReconstruction ==
    /\ recon_pc = "start"
    /\ LET FA == ZeroNaN([v \in 1..NumVoxels |-> FractionalAnisotropy(evals[v])])
       IN  fa_file' = FA
    /\ saved' = <<"evecs", "fa", "cfa">>
    /\ recon_pc' = "done"
    /\ UNCHANGED <<evals, notReconVars>>

(* An error on the way (a missing .bval, an unreadable volume): nothing in   *)
(* the function handles it and no volume is saved.                           *)
ReconstructionRaises ==
    /\ recon_pc = "start"
    /\ recon_pc' = "raised"
    /\ UNCHANGED <<evals, saved, fa_file, notReconVars>>

NextRecon == ComputeReconstruction \/ ReconstructionRaises

SpecRecon == InitRecon /\ [][NextRecon]_vars

-----------------------------------------------------------------------------
(* dicom_to_nifti and the files of out_dir *)

\* Calls of dicom_to_nifti in one run.
MaxCalls == 3

\* File names are sequences of characters.
NII == <<".", "n", "i", "i">>
BVAL == <<".", "b", "v", "a", "l">>
BVEC == <<".", "b", "v", "e", "c">>
subj_name == <<"s">>
Tags == {<<"m", "r", "i">>, <<"d", "m", "r", "i">>}

\* The name the converter gives the series it converts in call k.
Stem(k) == <<"x">> \o FormatD(k)

EndsWith(name, suffix) ==
    /\ Len(name) >= Len(suffix)
    /\ SubSeq(name, Len(name) - Len(suffix) + 1, Len(name)) = suffix

\* str.strip('co, o, .nii, .bval, .bvec'): the argument is a set of
\* characters, removed from both ends.
StripChars == {"c", "o", ",", " ", ".", "n", "i", "b", "v", "a", "l", "e"}

RECURSIVE LStrip(_)
LStrip(n) == IF n # <<>> /\ Head(n) \in StripChars THEN LStrip(Tail(n)) ELSE n

RECURSIVE RStrip(_)
RStrip(n) ==
    IF n # <<>> /\ n[Len(n)] \in StripChars
    THEN RStrip(SubSeq(n, 1, Len(n) - 1)) ELSE n

Strip(n) == RStrip(LStrip(n))

\* os.path.exists, os.remove and os.rename on the files of a directory.
Exists(dir, n) == \E f \in dir : f.name = n
Remove(dir, n) == {f \in dir : f.name # n}
RemoveIfExists(dir, n) == Remove(dir, n)
RenameIfExists(dir, old, new, now) ==
    IF Exists(dir, old)
    THEN Remove(Remove(dir, old), new) \cup {[name |-> new, ctime |-> now]}
    ELSE dir

(* The dcm2nii run at 74-75.  For a structural series it writes the volume,  *)
(* then the reoriented 'o' volume, then the cropped 'co' volume; for a       *)
(* diffusion series the volume and its .bval and .bvec.  It may also write   *)
(* nothing.  Each file is stamped as it is created.                          *)
Converted(tag, stem, now) ==
    IF tag = <<"m", "r", "i">>
    THEN {[name |-> stem \o NII, ctime |-> now],
          [name |-> <<"o">> \o stem \o NII, ctime |-> now + 1],
          [name |-> <<"c", "o">> \o stem \o NII, ctime |-> now + 2]}
    ELSE {[name |-> stem \o NII, ctime |-> now],
          [name |-> stem \o BVAL, ctime |-> now + 1],
          [name |-> stem \o BVEC, ctime |-> now + 2]}

\* Line 77: min(all_file, key = os.path.getctime)
SelectNewFile(files) == CHOOSE f \in files : \A g \in files : f.ctime <= g.ctime

\* Lines 59-65: the outputs of an earlier call are removed.
RemoveOld(dir, tag) ==
    RemoveIfExists(RemoveIfExists(RemoveIfExists(dir,
        subj_name \o <<"_">> \o tag \o NII),
        subj_name \o BVAL),
        subj_name \o BVEC)

\* Lines 80-101: the renames and removals around del_file.
Collect(dir, tag, del_file, now) ==
    IF tag = <<"m", "r", "i">>
    THEN RemoveIfExists(RemoveIfExists(
            RenameIfExists(dir, <<"c", "o">> \o del_file \o NII,
                           subj_name \o <<"_">> \o tag \o NII, now),
            <<"o">> \o del_file \o NII),
            del_file \o NII)
    ELSE RenameIfExists(RenameIfExists(
            RenameIfExists(dir, del_file \o NII,
                           subj_name \o <<"_">> \o tag \o NII, now),
            del_file \o BVAL, subj_name \o BVAL, now),
            del_file \o BVEC, subj_name \o BVEC, now)

\* What out_dir may hold before the run: a volume left by an earlier
\* conversion, and the outputs of an earlier run, each with its own ctime.
Leftovers ==
    {[name |-> Stem(0) \o NII, ctime |-> 1],
     [name |-> subj_name \o <<"_", "m", "r", "i">> \o NII, ctime |-> 2],
     [name |-> subj_name \o <<"_", "d", "m", "r", "i">> \o NII, ctime |-> 3],
     [name |-> subj_name \o BVAL, ctime |-> 4]}

InitDcm ==
    /\ out_dir \in SUBSET Leftovers
    /\ clock = 5
    /\ n_calls = 0
    /\ dcm_pc = "idle"
    /\ emitted = {}
    /\ all_file = {}
    /\ new_file = NoFile
    /\ IdleTrack /\ IdlePipe /\ IdleName /\ IdleRecon

\* Lines 59-72 with no *.dcm file in src_dir: the message and sys.exit().
DicomToNifti_NoDcm ==
    /\ n_calls < MaxCalls
    /\ dcm_pc \in {"idle", "done"}
    /\ \E tag \in Tags : out_dir' = RemoveOld(out_dir, tag)
    /\ dcm_pc' = "exited"
    /\ n_calls' = n_calls + 1
    /\ emitted' = {}
    /\ UNCHANGED <<clock, all_file, new_file, notDcmVars>>

\* Lines 59-77 when the converter leaves no .nii in out_dir: min() of an
\* empty list raises.
DicomToNifti_NoNii ==
    /\ n_calls < MaxCalls
    /\ dcm_pc \in {"idle", "done"}
    /\ \E tag \in Tags :
          /\ out_dir' = RemoveOld(out_dir, tag)
          /\ all_file' = {f \in out_dir' : EndsWith(f.name, NII)}
    /\ all_file' = {}
    /\ dcm_pc' = "raised"
    /\ n_calls' = n_calls + 1
    /\ emitted' = {}
    /\ UNCHANGED <<clock, new_file, notDcmVars>>

\* Lines 59-101, the whole call.
DicomToNifti ==
    /\ n_calls < MaxCalls
    /\ dcm_pc \in {"idle", "done"}
    /\ \E tag \in Tags, converts \in BOOLEAN :
          LET cleaned == RemoveOld(out_dir, tag)
              written == IF converts
                         THEN Converted(tag, Stem(n_calls + 1), clock + 1)
                         ELSE {}
              after == cleaned \cup written
              listed == {f \in after : EndsWith(f.name, NII)}
              picked == SelectNewFile(listed)
              del_file == Strip(picked.name)
          IN  /\ listed # {}
              /\ emitted' = {f.name : f \in written}
              /\ all_file' = listed
              /\ new_file' = picked
              /\ out_dir' = Collect(after, tag, del_file, clock + 4)
    /\ clock' = clock + 5
    /\ n_calls' = n_calls + 1
    /\ dcm_pc' = "done"
    /\ UNCHANGED notDcmVars

NextDcm == DicomToNifti \/ DicomToNifti_NoDcm \/ DicomToNifti_NoNii

SpecDcm == InitDcm /\ [][NextDcm]_vars

(* C10: the file dicom_to_nifti takes as the converter's new output is the   *)
(* most recently created .nii of out_dir: none of the listed .nii files is   *)
(* newer than the selected one, so when the converter wrote a volume the     *)
(* selected file is one it wrote, never an older one.                        *)
C10_NewFileIsNewest ==
    (dcm_pc = "done" /\ emitted # {}) =>
        /\ \A f \in all_file : f.ctime <= new_file.ctime
        /\ new_file.name \in emitted

====
